---- MODULE Spec2Model ----
\* A model of fpga_builder/utils.py: the command runner (run_cmd and its two
\* helpers), check_output, repo_clean, query_yes_no and check_vitis.
\*
\* Text is modelled as a sequence of one-character strings, a byte string as a
\* sequence of byte values.  One behaviour of the model is one call of one of
\* the module's functions (op), with its arguments and its environment (the
\* child process, the terminal, the repository) drawn from bounded sets.
EXTENDS Integers, Sequences, FiniteSets, TLC

VARIABLES
    op,          \* the function being called
    pc,          \* where the call is: "call", "reading", "waiting", "loop", "done"
    cmd,         \* run_cmd / check_output: the cmd argument
    silent,      \* run_cmd: the silent argument
    blocking,    \* run_cmd: the blocking argument
    has_handler, \* run_cmd: whether a line_handler was given
    child,       \* the child process: "none", "running", "closed" (stdout closed), "exited"
    child_rc,    \* the child's exit code once it has exited
    pipe,        \* bytes written by the child and not yet read by readline()
    produced,    \* every byte the child has written, in order
    handled,     \* the arguments line_handler was called with, in order
    trace,       \* what was printed, and the launch of the child, in order
    result,      \* how the call ended: returned value or raised exception
    version,     \* check_vitis: the version argument
    default,     \* query_yes_no: the default argument
    lines,       \* query_yes_no: the lines the user has yet to type
    consumed,    \* query_yes_no: the lines input() has returned, in order
    prompts,     \* query_yes_no: how many times the question was printed
    complaints,  \* query_yes_no: how many times "Please respond..." was printed
    sub_rc,      \* repo_clean / check_output: exit code of the subprocess
    sub_stdout,  \* repo_clean / check_output: standard output of the subprocess
    override     \* repo_clean: the module global DEBUG_ALLOW_GIT_DIRTY

vars == <<op, pc, cmd, silent, blocking, has_handler, child, child_rc, pipe,
          produced, handled, trace, result, version, default, lines, consumed,
          prompts, complaints, sub_rc, sub_stdout, override>>

----------------------------------------------------------------------------
\* Bounds of the model.

MaxCmdLen == 3      \* longest command text
MaxOut == 3         \* most bytes a child process writes
MaxLines == 3       \* most lines the user types
MaxParts == 3       \* most dot-separated components of a version string

SeqsUpTo(S, n) == UNION {[1..k -> S] : k \in 0..n}

----------------------------------------------------------------------------
\* Values shared by the operations.

NoCmd == [form |-> "none", text |-> <<>>, argv |-> <<>>]
CmdText(t) == [form |-> "text", text |-> t, argv |-> <<>>]
CmdArgv(a) == [form |-> "argv", text |-> <<>>, argv |-> a]

NoExc == [type |-> "", returncode |-> 0, cmd |-> NoCmd]
Exc(t) == [type |-> t, returncode |-> 0, cmd |-> NoCmd]
CalledProcessError(rc, c) == [type |-> "CalledProcessError", returncode |-> rc, cmd |-> c]

NoResult == [kind |-> "none", value |-> 0, exc |-> NoExc]
Return(v) == [kind |-> "return", value |-> v, exc |-> NoExc]
Raise(e) == [kind |-> "raise", value |-> 0, exc |-> e]

Event(e) == [ev |-> e, cmd |-> NoCmd, blocking |-> TRUE]

\* Byte values the children write: "a", space and newline.
ByteA == {97}
ByteSpace == {32}
ByteNewline == {10}
OutBytes == ByteA \cup ByteSpace \cup ByteNewline
IsNewline(b) == b \in ByteNewline

\* bytes.decode("utf-8"), on the bytes above.
DecodeByte(b) == CASE b \in ByteA -> "a"
                   [] b \in ByteSpace -> " "
                   [] b \in ByteNewline -> "\n"
Decode(bs) == [i \in 1..Len(bs) |-> DecodeByte(bs[i])]

Whitespace == {" ", "\n", "\t", "\r"}

RECURSIVE LStrip(_)
LStrip(s) == IF s # <<>> /\ Head(s) \in Whitespace THEN LStrip(Tail(s)) ELSE s

RECURSIVE RStrip(_)
RStrip(s) == IF s # <<>> /\ s[Len(s)] \in Whitespace
             THEN RStrip(SubSeq(s, 1, Len(s) - 1)) ELSE s

\* Whitespace removed at the right end only.
StripRightOnly(s) == RStrip(s)

\* str.strip(): whitespace removed at both ends.
Strip(s) == LStrip(RStrip(s))

----------------------------------------------------------------------------
\* run_cmd: preparing the command.

CmdChars == {"a", " ", "\\"}

\* cmd.replace("\\", "\\\\"): every backslash doubled.
RECURSIVE EscapeBackslashes(_)
EscapeBackslashes(s) ==
    IF s = <<>> THEN <<>>
    ELSE IF Head(s) = "\\" THEN <<"\\", "\\">> \o EscapeBackslashes(Tail(s))
    ELSE <<Head(s)>> \o EscapeBackslashes(Tail(s))

\* shlex.split on text without quotes: whitespace separates the words, a
\* backslash makes the next character part of the word, and a backslash with
\* nothing after it is an error ("No escaped character").
RECURSIVE ShlexScan(_, _, _, _, _)
ShlexScan(s, i, cur, inword, words) ==
    IF i > Len(s)
    THEN [ok |-> TRUE, words |-> IF inword THEN Append(words, cur) ELSE words]
    ELSE IF s[i] = " "
    THEN ShlexScan(s, i + 1, <<>>, FALSE, IF inword THEN Append(words, cur) ELSE words)
    ELSE IF s[i] = "\\"
    THEN IF i = Len(s)
         THEN [ok |-> FALSE, words |-> <<>>]
         ELSE ShlexScan(s, i + 2, Append(cur, s[i + 1]), TRUE, words)
    ELSE ShlexScan(s, i + 1, Append(cur, s[i]), TRUE, words)

ShlexSplit(s) == ShlexScan(s, 1, <<>>, FALSE, <<>>)

\* split_cmd of run_cmd.
SplitCmd(c) == ShlexSplit(EscapeBackslashes(c)).words

\* The commands given to run_cmd and check_output: those naming a program.
Cmds == {c \in SeqsUpTo(CmdChars, MaxCmdLen) : SplitCmd(c) # <<>>}

\* _print_cmd_header and _print_cmd_footer.
PrintCmdHeader(tr, c, s, b) ==
    IF ~s THEN Append(tr, [ev |-> "header", cmd |-> CmdText(c), blocking |-> b]) ELSE tr

\* A footer printed whatever silent says.
PrintCmdFooterAlways(tr, s) == Append(tr, Event("footer"))

PrintCmdFooter(tr, s) == IF ~s THEN Append(tr, Event("footer")) ELSE tr

\* The two err() calls of run_cmd's except clause.
LogLaunchFailure(tr, c) ==
    tr \o << [ev |-> "err", cmd |-> CmdText(c), blocking |-> TRUE],
             [ev |-> "err", cmd |-> CmdArgv(SplitCmd(c)), blocking |-> TRUE] >>

\* What Popen / subprocess.run can do when asked to start the program.
LaunchOutcomes == {"started", "FileNotFoundError", "PermissionError"}

\* The except clause of run_cmd catches these.
CaughtByRunCmd == {"FileNotFoundError", "PermissionError", "OSError"}

\* Exit codes of a child: success, failure, and git's code outside a repository.
ExitCodes == {0, 1, 128}

\* _run_nonblocking is defined with two parameters and called with three
\* arguments; Python raises TypeError at the call, before the body runs.
RunNonblockingParams == 2
RunNonblockingArgs == 3
NonblockingCallBinds == RunNonblockingArgs = RunNonblockingParams

----------------------------------------------------------------------------
\* run_cmd up to the point where the child runs: the command is split, the
\* header printed, and the child launched (or the launch fails).

RunUnchanged == UNCHANGED <<op, cmd, silent, blocking, has_handler, version, default,
                            lines, consumed, prompts, complaints, sub_rc, sub_stdout,
                            override>>

\* How run_cmd ends when the helper raises e: logged if caught, then raised;
\* the footer is not reached.
RunCmdRaised(tr, e) ==
    /\ trace' = IF e.type \in CaughtByRunCmd THEN LogLaunchFailure(tr, cmd) ELSE tr
    /\ result' = Raise(e)
    /\ pc' = "done"

\* How run_cmd ends when the helper returns rc.
RunCmdReturned(tr, rc) ==
    /\ trace' = PrintCmdFooter(tr, silent)
    /\ result' = Return(rc)
    /\ pc' = "done"

RunCmdBegin ==
    /\ op = "run_cmd" /\ pc = "call"
    /\ LET tr == PrintCmdHeader(trace, cmd, silent, blocking) IN
       IF blocking
       THEN \E launch \in LaunchOutcomes :
              IF launch = "started"
              THEN /\ trace' = Append(tr, Event("spawn"))
                   /\ child' = "running"
                   /\ pc' = IF has_handler THEN "reading" ELSE "waiting"
                   /\ UNCHANGED result
              ELSE /\ RunCmdRaised(tr, Exc(launch))
                   /\ UNCHANGED child
       ELSE IF NonblockingCallBinds
       THEN \E launch \in LaunchOutcomes :
              IF launch = "started"
              THEN /\ child' = "running"
                   /\ RunCmdReturned(Append(tr, Event("spawn")), 0)
              ELSE /\ RunCmdRaised(tr, Exc(launch))
                   /\ UNCHANGED child
       ELSE /\ RunCmdRaised(tr, Exc("TypeError"))
            /\ UNCHANGED child
    /\ UNCHANGED <<child_rc, pipe, produced, handled>>
    /\ RunUnchanged

----------------------------------------------------------------------------
\* The child process.

ChildWrite(b) ==
    /\ child = "running"
    /\ Len(produced) < MaxOut
    /\ produced' = Append(produced, b)
    /\ pipe' = IF has_handler /\ blocking THEN Append(pipe, b) ELSE pipe
    /\ UNCHANGED <<pc, child, child_rc, handled, trace, result>>
    /\ RunUnchanged

\* The child closes its standard output and error and keeps running.
ChildClose ==
    /\ child = "running"
    /\ child' = "closed"
    /\ UNCHANGED <<pc, child_rc, pipe, produced, handled, trace, result>>
    /\ RunUnchanged

ChildExit(rc) ==
    /\ child \in {"running", "closed"}
    /\ child' = "exited"
    /\ child_rc' = rc
    /\ UNCHANGED <<pc, pipe, produced, handled, trace, result>>
    /\ RunUnchanged

----------------------------------------------------------------------------
\* _run_blocking with a line handler: the read loop.

HasNewline(bs) == \E i \in 1..Len(bs) : IsNewline(bs[i])
FirstNewline(bs) == CHOOSE i \in 1..Len(bs) :
                      IsNewline(bs[i]) /\ \A j \in 1..(i - 1) : ~IsNewline(bs[j])

\* process.stdout.readline() returns once a whole line is in the pipe, or
\* at end of file with what is left (b'' when nothing is).
ReadlineReady == HasNewline(pipe) \/ child \in {"closed", "exited"}
ReadlineLen == IF HasNewline(pipe) THEN FirstNewline(pipe) ELSE Len(pipe)

\* The line handed to line_handler for the bytes readline() returned.
HandlerArg(output) == Strip(Decode(output))

\* The split command raised in place of the original command.
HandlerFailureSplit(rc) == CalledProcessError(rc, CmdArgv(SplitCmd(cmd)))

\* The exception _run_blocking raises for exit code rc when a handler is given.
HandlerFailure(rc) == CalledProcessError(rc, CmdText(cmd))

\* One iteration of the while loop, and what follows the loop when it breaks.
RunCmdReadLine ==
    /\ op = "run_cmd" /\ pc = "reading"
    /\ ReadlineReady
    /\ LET output == SubSeq(pipe, 1, ReadlineLen)
           rest == SubSeq(pipe, ReadlineLen + 1, Len(pipe))
       IN IF output = <<>> /\ child = "exited"
          THEN /\ IF child_rc # 0
                  THEN RunCmdRaised(trace, HandlerFailure(child_rc))
                  ELSE RunCmdReturned(trace, child_rc)
               /\ UNCHANGED <<pipe, handled>>
          ELSE IF output # <<>>
          THEN /\ handled' = Append(handled, HandlerArg(output))
               /\ pipe' = rest
               /\ UNCHANGED <<pc, trace, result>>
          ELSE UNCHANGED <<pc, trace, result, pipe, handled>>
    /\ UNCHANGED <<child, child_rc, produced>>
    /\ RunUnchanged

\* The exception subprocess.run(split_cmd, check=True) raises for exit code rc.
DirectFailure(rc) == CalledProcessError(rc, CmdArgv(SplitCmd(cmd)))

\* _run_blocking without a line handler: subprocess.run waits for the child.
RunCmdWait ==
    /\ op = "run_cmd" /\ pc = "waiting"
    /\ child = "exited"
    /\ IF child_rc # 0
       THEN RunCmdRaised(trace, DirectFailure(child_rc))
       ELSE RunCmdReturned(trace, child_rc)
    /\ UNCHANGED <<child, child_rc, pipe, produced, handled>>
    /\ RunUnchanged

----------------------------------------------------------------------------
\* check_output.

OtherUnchanged == UNCHANGED <<op, cmd, silent, blocking, has_handler, child, child_rc,
                              pipe, produced, handled, version, default, lines,
                              consumed, sub_rc, sub_stdout, override>>

\* subprocess.check_output(shlex.split(cmd), cwd=cwd).decode().strip()
CheckOutputResult(launch) ==
    IF ~ShlexSplit(cmd).ok THEN Raise(Exc("ValueError"))
    ELSE IF launch # "started" THEN Raise(Exc(launch))
    ELSE IF sub_rc # 0 THEN Raise(CalledProcessError(sub_rc, CmdArgv(ShlexSplit(cmd).words)))
    ELSE Return(Strip(Decode(sub_stdout)))

CheckOutput ==
    /\ op = "check_output" /\ pc = "call"
    /\ \E launch \in LaunchOutcomes : result' = CheckOutputResult(launch)
    /\ pc' = "done"
    /\ UNCHANGED <<trace, prompts, complaints>>
    /\ OtherUnchanged

----------------------------------------------------------------------------
\* repo_clean.

GitStatusCmd == <<"g", "i", "t", " ", "s", "t", "a", "t", "u", "s", " ",
                  "-", "-", "p", "o", "r", "c", "e", "l", "a", "i", "n">>

\* DEBUG_ALLOW_GIT_DIRTY: absent from the module's globals, or holding a value.
Overrides == {[defined |-> FALSE, value |-> FALSE],
              [defined |-> TRUE, value |-> TRUE],
              [defined |-> TRUE, value |-> FALSE]}

\* The status output returned without the command in front of it.
RepoCleanNoCommand(out, ov) ==
    IF out # <<>>
    THEN IF ov.defined THEN <<ov.value, Decode(out)>> ELSE <<FALSE, Decode(out)>>
    ELSE <<TRUE, <<>> >>

\* The override forcing clean whatever value it holds.
RepoCleanForcesClean(out, ov) ==
    IF out # <<>>
    THEN LET text == GitStatusCmd \o <<"\n">> \o Decode(out)
         IN IF ov.defined THEN <<TRUE, text>> ELSE <<FALSE, text>>
    ELSE <<TRUE, <<>> >>

\* The pair repo_clean returns; the exit code of the status query is not read.
RepoCleanValue(out, ov) ==
    IF out # <<>>
    THEN LET text == GitStatusCmd \o <<"\n">> \o Decode(out)
         IN IF ov.defined THEN <<ov.value, text>> ELSE <<FALSE, text>>
    ELSE <<TRUE, <<>> >>

RepoClean ==
    /\ op = "repo_clean" /\ pc = "call"
    /\ result' = Return(RepoCleanValue(sub_stdout, override))
    /\ trace' = IF sub_stdout # <<>> /\ override.defined
                THEN Append(trace, Event("bypass_warning")) ELSE trace
    /\ pc' = "done"
    /\ UNCHANGED <<prompts, complaints>>
    /\ OtherUnchanged

----------------------------------------------------------------------------
\* query_yes_no.

\* None, which is no string.
PyNone == <<"None">>

Yes == <<"y", "e", "s">>
No == <<"n", "o">>

\* The dictionary valid.
ValidKeys == {Yes, <<"y">>, <<"y", "e">>, No, <<"n">>}
Valid(k) == k \in {Yes, <<"y">>, <<"y", "e">>}

\* str.lower() on the letters the user types.
LowerChar(c) == CASE c = "Y" -> "y" [] c = "E" -> "e" [] c = "S" -> "s"
                  [] c = "N" -> "n" [] c = "O" -> "o" [] OTHER -> c
\* The line compared as typed.
LowerForgotten(s) == s

Lower(s) == [i \in 1..Len(s) |-> LowerChar(s[i])]

\* The defaults callers pass, one of them invalid.
Defaults == {Yes, No, PyNone, <<"m">>}

\* The lines a user types.
InputLines == {<<>>, <<"y">>, <<"Y">>, Yes, <<"Y", "E", "S">>, <<"y", "e">>,
               <<"n">>, No, <<"N", "o">>, <<"x">>, <<"y", "e", "s", "s">>}

\* The code before the loop: the prompt is chosen, or the default rejected.
QueryStart ==
    /\ op = "query_yes_no" /\ pc = "call"
    /\ IF default = PyNone \/ default = Yes \/ default = No
       THEN pc' = "loop" /\ UNCHANGED result
       ELSE pc' = "done" /\ result' = Raise(Exc("ValueError"))
    /\ UNCHANGED <<trace, lines, consumed, prompts, complaints>>
    /\ UNCHANGED <<op, cmd, silent, blocking, has_handler, child, child_rc, pipe,
                   produced, handled, version, default, sub_rc, sub_stdout, override>>

\* What one iteration of the loop does with the line input() returned:
\* the value it returns, or "again".
Answer(line, dflt) ==
    LET choice == Lower(line) IN
    IF dflt # PyNone /\ choice = <<>> THEN [again |-> FALSE, value |-> Valid(dflt)]
    ELSE IF choice \in ValidKeys THEN [again |-> FALSE, value |-> Valid(choice)]
    ELSE [again |-> TRUE, value |-> FALSE]

\* One iteration of the loop: prompt, read a line, answer or complain.
QueryIterate ==
    /\ op = "query_yes_no" /\ pc = "loop"
    /\ lines # <<>>
    /\ prompts' = prompts + 1
    /\ lines' = Tail(lines)
    /\ consumed' = Append(consumed, Head(lines))
    /\ LET a == Answer(Head(lines), default) IN
       IF a.again
       THEN /\ complaints' = complaints + 1
            /\ UNCHANGED <<pc, result>>
       ELSE /\ result' = Return(a.value)
            /\ pc' = "done"
            /\ UNCHANGED complaints
    /\ UNCHANGED trace
    /\ UNCHANGED <<op, cmd, silent, blocking, has_handler, child, child_rc, pipe,
                   produced, handled, version, default, sub_rc, sub_stdout, override>>

\* The prompt is printed and input() finds the terminal at end of file.
QueryEndOfInput ==
    /\ op = "query_yes_no" /\ pc = "loop"
    /\ lines = <<>>
    /\ prompts' = prompts + 1
    /\ result' = Raise(Exc("EOFError"))
    /\ pc' = "done"
    /\ UNCHANGED <<trace, lines, consumed, complaints>>
    /\ UNCHANGED <<op, cmd, silent, blocking, has_handler, child, child_rc, pipe,
                   produced, handled, version, default, sub_rc, sub_stdout, override>>

----------------------------------------------------------------------------
\* check_vitis.

Digits == {"0", "1", "2", "3", "4", "5", "6", "7", "8", "9"}
DigitValue(c) == CASE c = "0" -> 0 [] c = "1" -> 1 [] c = "2" -> 2 [] c = "3" -> 3
                   [] c = "4" -> 4 [] c = "5" -> 5 [] c = "6" -> 6 [] c = "7" -> 7
                   [] c = "8" -> 8 [] c = "9" -> 9

RECURSIVE DecimalValue(_)
DecimalValue(s) == IF s = <<>> THEN 0
                   ELSE 10 * DecimalValue(SubSeq(s, 1, Len(s) - 1)) + DigitValue(s[Len(s)])

\* int(s) on text of digits and letters: the number, or ValueError.
ParseInt(s) == IF s # <<>> /\ \A i \in 1..Len(s) : s[i] \in Digits
               THEN [ok |-> TRUE, value |-> DecimalValue(s)]
               ELSE [ok |-> FALSE, value |-> 0]

\* version.split(".")
RECURSIVE SplitDotFrom(_, _, _)
SplitDotFrom(s, cur, parts) ==
    IF s = <<>> THEN Append(parts, cur)
    ELSE IF Head(s) = "." THEN SplitDotFrom(Tail(s), <<>>, Append(parts, cur))
    ELSE SplitDotFrom(Tail(s), Append(cur, Head(s)), parts)
SplitDot(s) == SplitDotFrom(s, <<>>, <<>>)

\* The threshold of check_vitis.
ThresholdYear == 2019
ThresholdMinor == 1

\* Both components parsed before they are compared.
CheckVitisEager(v) ==
    LET ver_parts == SplitDot(v)
        year == ParseInt(ver_parts[1])
    IN IF ~year.ok THEN Raise(Exc("ValueError"))
       ELSE IF Len(ver_parts) < 2 THEN Raise(Exc("IndexError"))
       ELSE LET minor == ParseInt(ver_parts[2])
            IN IF ~minor.ok THEN Raise(Exc("ValueError"))
               ELSE IF year.value <= ThresholdYear /\ minor.value <= ThresholdMinor
               THEN Return(0)
               ELSE Return(1)

\* check_vitis: `and` evaluates its right operand only when the left is true.
CheckVitisResult(v) ==
    LET ver_parts == SplitDot(v)
        year == ParseInt(ver_parts[1])
    IN IF ~year.ok THEN Raise(Exc("ValueError"))
       ELSE IF year.value <= ThresholdYear
       THEN IF Len(ver_parts) < 2 THEN Raise(Exc("IndexError"))
            ELSE LET minor == ParseInt(ver_parts[2])
                 IN IF ~minor.ok THEN Raise(Exc("ValueError"))
                    ELSE IF minor.value <= ThresholdMinor THEN Return(0)
                    ELSE Return(1)
       ELSE Return(1)

\* The components version strings are made of, and the strings.
Components == { <<"2", "0", "1", "8">>, <<"2", "0", "1", "9">>, <<"2", "0", "2", "0">>,
                <<"1">>, <<"2">>, <<"9">>, <<"x">>, <<>> }

RECURSIVE JoinDot(_)
JoinDot(parts) == IF Len(parts) = 1 THEN parts[1]
                  ELSE parts[1] \o <<".">> \o JoinDot(Tail(parts))

Versions == {JoinDot(p) : p \in UNION {[1..k -> Components] : k \in 1..MaxParts}}

CheckVitis ==
    /\ op = "check_vitis" /\ pc = "call"
    /\ result' = CheckVitisResult(version)
    /\ pc' = "done"
    /\ UNCHANGED <<trace, prompts, complaints>>
    /\ OtherUnchanged

----------------------------------------------------------------------------
\* The calls.

Ops == {"run_cmd", "check_output", "repo_clean", "query_yes_no", "check_vitis"}

Only(o, S, idle) == IF op = o THEN S ELSE {idle}

Init ==
    /\ op \in Ops
    /\ pc = "call"
    /\ cmd \in (IF op \in {"run_cmd", "check_output"} THEN Cmds ELSE {<<>>})
    /\ silent \in Only("run_cmd", BOOLEAN, FALSE)
    /\ blocking \in Only("run_cmd", BOOLEAN, TRUE)
    /\ has_handler \in Only("run_cmd", BOOLEAN, FALSE)
    /\ child = "none"
    /\ child_rc = 0
    /\ pipe = <<>>
    /\ produced = <<>>
    /\ handled = <<>>
    /\ trace = <<>>
    /\ result = NoResult
    /\ version \in Only("check_vitis", Versions, <<>>)
    /\ default \in Only("query_yes_no", Defaults, PyNone)
    /\ lines \in Only("query_yes_no", SeqsUpTo(InputLines, MaxLines), <<>>)
    /\ consumed = <<>>
    /\ prompts = 0
    /\ complaints = 0
    /\ sub_rc \in (IF op \in {"repo_clean", "check_output"} THEN ExitCodes ELSE {0})
    /\ sub_stdout \in (IF op \in {"repo_clean", "check_output"}
                       THEN SeqsUpTo(OutBytes, MaxOut) ELSE {<<>>})
    /\ override \in Only("repo_clean", Overrides, [defined |-> FALSE, value |-> FALSE])

Next ==
    \/ RunCmdBegin
    \/ \E b \in OutBytes : ChildWrite(b)
    \/ ChildClose
    \/ \E rc \in ExitCodes : ChildExit(rc)
    \/ RunCmdReadLine
    \/ RunCmdWait
    \/ CheckOutput
    \/ RepoClean
    \/ QueryStart
    \/ QueryIterate
    \/ QueryEndOfInput
    \/ CheckVitis

Spec == Init /\ [][Next]_vars

----------------------------------------------------------------------------
\* What the properties below expect, stated apart from the model of the code.

Last(s) == s[Len(s)]
SetMin(S) == CHOOSE x \in S : \A y \in S : x <= y
SetMax(S) == CHOOSE x \in S : \A y \in S : x >= y

\* The lines of a byte stream: each ends with its newline, the last may not.
RECURSIVE StreamLines(_)
StreamLines(bs) ==
    IF bs = <<>> THEN <<>>
    ELSE LET ends == {i \in 1..Len(bs) : bs[i] = 10}
             n == IF ends = {} THEN Len(bs) ELSE SetMin(ends)
         IN <<SubSeq(bs, 1, n)>> \o StreamLines(SubSeq(bs, n + 1, Len(bs)))

StreamText(bs) == [i \in 1..Len(bs) |->
                     IF bs[i] = 97 THEN "a" ELSE IF bs[i] = 32 THEN " " ELSE "\n"]

Inked(t) == {i \in 1..Len(t) : t[i] \notin {" ", "\n"}}
TrimmedRight(t) == IF Inked(t) = {} THEN <<>> ELSE SubSeq(t, 1, SetMax(Inked(t)))
TrimmedBoth(t) == IF Inked(t) = {} THEN <<>> ELSE SubSeq(t, SetMin(Inked(t)), SetMax(Inked(t)))

LinesTrimmedRight(bs) == [i \in 1..Len(StreamLines(bs)) |-> TrimmedRight(StreamText(StreamLines(bs)[i]))]
LinesTrimmedBoth(bs) == [i \in 1..Len(StreamLines(bs)) |-> TrimmedBoth(StreamText(StreamLines(bs)[i]))]

\* The bytes readline() has taken out of the pipe.
BytesRead == SubSeq(produced, 1, Len(produced) - Len(pipe))

\* The words of a command without quotes: its runs of characters other than space.
RECURSIVE WordsOf(_)
WordsOf(t) ==
    IF t = <<>> THEN <<>>
    ELSE IF Head(t) = " " THEN WordsOf(Tail(t))
    ELSE LET gaps == {i \in 1..Len(t) : t[i] = " "}
             n == IF gaps = {} THEN Len(t) ELSE SetMin(gaps) - 1
         IN <<SubSeq(t, 1, n)>> \o WordsOf(SubSeq(t, n + 1, Len(t)))

HandlerRun == op = "run_cmd" /\ blocking /\ has_handler
TraceHas(e) == \E i \in 1..Len(trace) : trace[i].ev = e
TraceCount(e) == Cardinality({i \in 1..Len(trace) : trace[i].ev = e})

----------------------------------------------------------------------------
----------------------------------------------------------------------------
\* C2 as stated: a blocking run_cmd whose command exits non-zero never returns;
\* it raises CalledProcessError carrying the exit code and the command text the
\* caller gave, and with a handler only after the child has ended and every
\* line has been handled.
C2_FailureCarriesText ==
    (op = "run_cmd" /\ blocking /\ child = "exited" /\ child_rc # 0)
        => /\ result.kind # "return"
           /\ pc = "done" =>
                /\ result.kind = "raise"
                /\ result.exc.type = "CalledProcessError"
                /\ result.exc.returncode = child_rc
                /\ result.exc.cmd.form = "text" /\ result.exc.cmd.text = cmd
                /\ has_handler => (pipe = <<>> /\ Len(handled) = Len(StreamLines(produced)))

\* C2 amended: the failure carries the caller's command text when a handler is
\* given, and the split argument list when none is.
C2_FailureCarriesCommand ==
    (op = "run_cmd" /\ blocking /\ child = "exited" /\ child_rc # 0)
        => /\ result.kind # "return"
           /\ pc = "done" =>
                /\ result.kind = "raise"
                /\ result.exc.type = "CalledProcessError"
                /\ result.exc.returncode = child_rc
                /\ IF has_handler
                   THEN result.exc.cmd.form = "text" /\ result.exc.cmd.text = cmd
                   ELSE result.exc.cmd.form = "argv" /\ result.exc.cmd.argv = WordsOf(cmd)
                /\ has_handler => (pipe = <<>> /\ Len(handled) = Len(StreamLines(produced)))

\* A command of two words fails with code 128 after two lines were handled.
C2_Witness ==
    /\ HandlerRun /\ pc = "done" /\ child_rc = 128
    /\ result.kind = "raise" /\ result.exc.returncode = 128
    /\ Len(WordsOf(cmd)) = 2
    /\ Len(handled) = 2

----------------------------------------------------------------------------
\* C3 as stated: run_cmd with blocking=False starts the child and returns 0
\* (a failure to launch aside).
C3_NonblockingReturnsZero ==
    (op = "run_cmd" /\ ~blocking /\ pc = "done"
        /\ result.exc.type \notin {"FileNotFoundError", "PermissionError"})
        => /\ result = Return(0)
           /\ TraceHas("spawn")

----------------------------------------------------------------------------
\* The first and second dot-separated components, read off the dots.
Dots(v) == {i \in 1..Len(v) : v[i] = "."}
FirstPart(v) == IF Dots(v) = {} THEN v ELSE SubSeq(v, 1, SetMin(Dots(v)) - 1)
HasSecondPart(v) == Dots(v) # {}
SecondPart(v) ==
    LET d == SetMin(Dots(v))
        later == {i \in Dots(v) : i > d}
    IN SubSeq(v, d + 1, IF later = {} THEN Len(v) ELSE SetMin(later) - 1)
DecimalDigits == <<"0", "1", "2", "3", "4", "5", "6", "7", "8", "9">>
IsNumber(t) == t # <<>> /\ \A i \in 1..Len(t) : \E d \in 1..10 : DecimalDigits[d] = t[i]
SecondIsNumber(v) == HasSecondPart(v) /\ IsNumber(SecondPart(v))
\* The number a text of digits writes.
DigitOf(c) == (CHOOSE d \in 1..10 : DecimalDigits[d] = c) - 1
RECURSIVE NumberFrom(_, _)
NumberFrom(t, acc) == IF t = <<>> THEN acc ELSE NumberFrom(Tail(t), 10 * acc + DigitOf(Head(t)))
NumberOf(t) == NumberFrom(t, 0)
Above2019(t) == NumberOf(t) > 2019

----------------------------------------------------------------------------
\* C4 as stated: check_vitis gives 0 for "2019.1", 1 for "2019.2", 1 for
\* "2020.1" and 0 for "2018.9" (a year before 2019 being legacy).
C4_VersionTable ==
    (op = "check_vitis" /\ pc = "done")
        => /\ version = <<"2", "0", "1", "9", ".", "1">> => result = Return(0)
           /\ version = <<"2", "0", "1", "9", ".", "2">> => result = Return(1)
           /\ version = <<"2", "0", "2", "0", ".", "1">> => result = Return(1)
           /\ version = <<"2", "0", "1", "8", ".", "9">> => result = Return(0)

----------------------------------------------------------------------------
\* C5 as stated: when the first or the second component is missing or is no
\* integer, check_vitis raises and returns no code.
C5_MalformedRaises ==
    (op = "check_vitis" /\ pc = "done" /\ (~IsNumber(FirstPart(version)) \/ ~SecondIsNumber(version)))
        => result.kind = "raise"

\* C5 amended: check_vitis raises exactly when the first component is no
\* integer, or it is at most 2019 and the second is missing or no integer; a first
\* component above 2019 gives 1 whatever the second is.
C5_RaisesUnlessYearDecides ==
    (op = "check_vitis" /\ pc = "done")
        => /\ result.kind = "raise"
                <=> \/ ~IsNumber(FirstPart(version))
                    \/ ~Above2019(FirstPart(version)) /\ ~SecondIsNumber(version)
           /\ (IsNumber(FirstPart(version)) /\ Above2019(FirstPart(version)))
                => result = Return(1)

\* "2019.x" has raised ValueError.
C5_Witness ==
    /\ op = "check_vitis" /\ pc = "done"
    /\ version = <<"2", "0", "1", "9", ".", "x">>
    /\ result = Raise(Exc("ValueError"))

----------------------------------------------------------------------------
UpperOf(c) == CASE c = "y" -> "Y" [] c = "e" -> "E" [] c = "s" -> "S"
                [] c = "n" -> "N" [] c = "o" -> "O"
Spells(line, word) == /\ Len(line) = Len(word)
                      /\ \A i \in 1..Len(word) : line[i] \in {word[i], UpperOf(word[i])}
MeansYes(line) == \E w \in {<<"y", "e", "s">>, <<"y">>, <<"y", "e">>} : Spells(line, w)
MeansNo(line) == \E w \in {<<"n", "o">>, <<"n">>} : Spells(line, w)
Settles(line) == MeansYes(line) \/ MeansNo(line) \/ (line = <<>> /\ default # PyNone)
Settled(line) == IF line = <<>> THEN default = <<"y", "e", "s">> ELSE MeansYes(line)

\* C6: query_yes_no returns the answer of the first line that is a recognized
\* token or, with a default, empty; every line before it is answered with a
\* complaint and a new prompt, and nothing is returned while no such line came.
C6_FirstSettlingLine ==
    (op = "query_yes_no" /\ default \in {<<"y", "e", "s">>, <<"n", "o">>, PyNone})
        => /\ result.kind = "return"
                => /\ consumed # <<>>
                   /\ Settles(Last(consumed))
                   /\ \A j \in 1..(Len(consumed) - 1) : ~Settles(consumed[j])
                   /\ result.value = Settled(Last(consumed))
                   /\ complaints = Len(consumed) - 1
                   /\ prompts = Len(consumed)
           /\ result.kind # "return"
                => \A j \in 1..Len(consumed) : ~Settles(consumed[j])
           /\ pc = "loop"
                => /\ result.kind = "none"
                   /\ complaints = Len(consumed)
                   /\ prompts = Len(consumed)

\* No default: an empty line and "x" are complained about, then "YES" gives true.
C6_Witness ==
    /\ op = "query_yes_no" /\ pc = "done" /\ default = PyNone
    /\ consumed = << <<>>, <<"x">>, <<"Y", "E", "S">> >>
    /\ result = Return(TRUE)
    /\ complaints = 2

----------------------------------------------------------------------------
\* C7: with no override defined, repo_clean returns (True, "") for empty
\* status output and otherwise (False, command + newline + output); the flag
\* is True exactly when the text is empty.
C7_CleanIffNoOutput ==
    (op = "repo_clean" /\ pc = "done" /\ ~override.defined)
        => /\ result.kind = "return"
           /\ sub_stdout = <<>> => result.value = <<TRUE, <<>> >>
           /\ sub_stdout # <<>> =>
                result.value = <<FALSE, GitStatusCmd \o <<"\n">> \o StreamText(sub_stdout)>>
           /\ result.value[1] <=> result.value[2] = <<>>

\* A status query that printed one entry.
C7_Witness ==
    /\ op = "repo_clean" /\ pc = "done" /\ ~override.defined
    /\ sub_stdout = <<97, 10>>
    /\ result.value[1] = FALSE
    /\ Len(result.value[2]) = Len(GitStatusCmd) + 3

----------------------------------------------------------------------------
----------------------------------------------------------------------------
\* C9 as stated: with silent=False every run_cmd call prints the header before
\* the child starts and the footer when the call ends, whether it succeeded, the
\* command exited non-zero or the launch failed; with silent=True neither is
\* printed.
C9_HeaderAlwaysClosed ==
    (op = "run_cmd" /\ pc = "done"
        /\ \/ result.kind = "return"
           \/ result.exc.type \in {"CalledProcessError", "FileNotFoundError", "PermissionError"})
        => IF silent
           THEN ~TraceHas("header") /\ ~TraceHas("footer")
           ELSE /\ trace[1].ev = "header"
                /\ Last(trace).ev = "footer"

\* C9 amended: with silent=False the header is printed first, before the child
\* starts, and the footer last exactly when run_cmd returns a value; a call that
\* raises prints no footer.  With silent=True neither is printed.
C9_FooterOnReturnOnly ==
    op = "run_cmd"
        => IF silent
           THEN ~TraceHas("header") /\ ~TraceHas("footer")
           ELSE /\ pc # "call" => (trace[1].ev = "header" /\ trace[1].cmd.text = cmd
                                   /\ trace[1].blocking = blocking)
                /\ TraceCount("header") <= 1
                /\ pc # "done" => ~TraceHas("footer")
                /\ pc = "done" =>
                     /\ TraceCount("footer") = (IF result.kind = "return" THEN 1 ELSE 0)
                     /\ result.kind = "return" => Last(trace).ev = "footer"

\* A command that was started under its header and failed: no footer.
C9_Witness ==
    /\ op = "run_cmd" /\ ~silent /\ pc = "done"
    /\ result.exc.type = "CalledProcessError"
    /\ trace[1].ev = "header" /\ trace[2].ev = "spawn" /\ Len(trace) = 2

----------------------------------------------------------------------------
\* C10 as stated: no failure of a child the module waits for ends as a success:
\* a launch failure in run_cmd is logged with the original and the split command
\* and raised, a non-zero exit in blocking run_cmd or in check_output is raised,
\* and repo_clean does not report clean when its status query failed.
C10_NoFailureSwallowed ==
    /\ (op = "run_cmd" /\ pc = "done" /\ blocking /\ child = "none")
          => /\ result.kind = "raise"
             /\ \E i \in 1..(Len(trace) - 1) :
                  /\ trace[i].ev = "err" /\ trace[i].cmd.text = cmd
                  /\ trace[i + 1].ev = "err" /\ trace[i + 1].cmd.argv = WordsOf(cmd)
    /\ (op = "run_cmd" /\ pc = "done" /\ blocking /\ child = "exited" /\ child_rc # 0)
          => result.kind = "raise"
    /\ (op = "check_output" /\ pc = "done" /\ sub_rc # 0) => result.kind = "raise"
    /\ (op = "repo_clean" /\ pc = "done" /\ sub_rc # 0)
          => ~(result.kind = "return" /\ result.value[1] = TRUE)

====
